---- MODULE Spec2Model ----
(***************************************************************************)
(* A model of smartiq_utils.ip_pool: the interval-based address pool.      *)
(*                                                                         *)
(* An interface (ipaddress.IPv4Interface / IPv6Interface) is a record      *)
(*   [ver |-> 4 or 6, ip |-> the address as an integer, pl |-> prefixlen]  *)
(* where an IPv6 address is kept as its distance from                      *)
(* ffff:ffff:ffff:ffff:ffff:ffff:c000:0, so that it fits the integers of   *)
(* the checker and the highest address of the family is among them.  An    *)
(* IPv4 address is kept as it is; the highest, 2^32 - 1, is beyond the     *)
(* integers of the checker.  An address string is the same                 *)
(* record with pl = NoPrefix when the string has no "/", and with ver = 0  *)
(* when it is no address literal at all.  A range token "a-b" is the       *)
(* sequence <<a, b>> left by split("-"), a single address "a" the sequence *)
(* <<a>>, and a pool string is the sequence of its tokens left by          *)
(* split(sep).                                                             *)
(***************************************************************************)
EXTENDS Integers, Sequences, FiniteSets, TLC

VARIABLES
    pc,                 \* "ready": the constructor returned; "failed": it raised
    version,            \* self.version
    network,            \* self.network
    available_ip_pool,  \* self.available_ip_pool
    used_ips,           \* self.used_ips
    universe,           \* history: the addresses the constructor's tokens cover
    call,               \* history: the last call, its outcome, and of its argument what
                        \* New, set_used_ips and unset_used_ips keep
    ncalls,             \* history: the number of calls of mutating methods so far
    fresh,              \* history: every one of those calls was allocate_ip
    other,              \* the two lists of a second pool made from the same pool string
    future_dict,        \* execute: the calls submitted, each with the state of its future
    result_dict,        \* execute: result_dict.data
    multi_exception,    \* execute: multi_exception._exceptions.data
    thread,             \* the threads that call the pool: where each is in its call, and
                        \* its local variables
    mutex               \* "none": the callers use no mutex; else "free" or the thread holding it

vars == <<pc, version, network, available_ip_pool, used_ips, universe, call, ncalls, fresh,
          other, future_dict, result_dict, multi_exception, thread, mutex>>

----------------------------------------------------------------------------
(* Bounds of the model *)

\* the pool strings hold at most MaxTokens range tokens
MaxTokens == 2
\* the batches given to set_used_ips / unset_used_ips hold at most MaxBatch addresses
MaxBatch == 2
\* the addresses of the model are FirstIp .. FirstIp + MaxOffset
MaxOffset == 2
\* a pool takes at most MaxCalls calls of its mutating methods
MaxCalls == 6
\* the pool strings given to the parser hold at most MaxParseTokens range tokens
MaxParseTokens == 3
\* the batches that are to fail hold at most MaxFailBatch addresses, and a pool
\* that takes them takes at most MaxBatchCalls calls
MaxFailBatch == 2
MaxBatchCalls == 6
\* the long pools hold up to MaxOver addresses more than a list may hold
MaxOver == 2
\* the lists given to the functions of the interval algebra hold at most
\* MaxRanges intervals, of the MaxTopOffset + 1 highest addresses of IPv6
MaxRanges == 3
MaxTopOffset == 2
\* two pools made from one pool string take at most MaxPairCalls calls together
MaxPairCalls == 3
\* the args_list and the kwargs_list given to execute hold at most MaxArgs entries
MaxArgs == 2
\* the two threads make at most MaxThreadCalls calls together
MaxThreadCalls == 3

----------------------------------------------------------------------------
(* Addresses, interfaces and networks (the ipaddress module as the pool uses it) *)

Ip4(a, b, c, d) == ((a * 256 + b) * 256 + c) * 256 + d

\* 10.0.0.254 .. : the window straddles the boundary between 10.0.0.0/24 and 10.0.1.0/24
FirstIp == Ip4(10, 0, 0, 254)
LastIp == FirstIp + MaxOffset
Ips == FirstIp .. LastIp

NoPrefix == 0 - 1
ipv4_mask == 24
ipv6_mask == 64
\* the number in the guard of _list_ips
MaxListLen == 65536

RECURSIVE Pow2(_)
Pow2(n) == IF n <= 0 THEN 1 ELSE 2 * Pow2(n - 1)

max_prefixlen(ver) == IF ver = 4 THEN 32 ELSE 128

ip_interface(ver, ip, pl) == [ver |-> ver, ip |-> ip, pl |-> pl]

\* interface.network: the address masked by the prefix, with the prefix length;
\* the addresses of the model are below 2^31, so a mask of 31 host bits or more
\* leaves none of their bits (for IPv6, none beyond ffff:ffff:ffff:ffff:ffff:ffff:c000:0)
Network(i) ==
    LET host_bits == max_prefixlen(i.ver) - i.pl
    IN  [ver |-> i.ver,
         addr |-> IF host_bits >= 31 THEN 0 ELSE i.ip - (i.ip % Pow2(host_bits)),
         pl |-> i.pl]

\* _BaseNetwork.__lt__: by network address, then by netmask
NetworkLt(n, m) ==
    IF n.addr # m.addr THEN n.addr < m.addr
    ELSE IF n.pl # m.pl THEN n.pl < m.pl
    ELSE FALSE

\* IPv4Interface.__lt__ / IPv6Interface.__lt__: the network first, the address second
InterfaceLt(a, b) ==
    \/ NetworkLt(Network(a), Network(b))
    \/ (Network(a) = Network(b) /\ a.ip < b.ip)

\* the builtin max(a, b): b only when b > a
InterfaceMax(a, b) == IF (~InterfaceLt(b, a) /\ b # a) THEN b ELSE a

\* i.ip + 1 raises AddressValueError at ffff:ffff:ffff:ffff:ffff:ffff:ffff:ffff
\* (the IPv4 addresses of the model are below 128.0.0.0)
IpPlusOneRaises(i) == i.ver = 6 /\ i.ip = 1073741823

\* what a call gives: a value, or the exception it raises
Ok(v) == [err |-> "ok", val |-> v]
Raise(e) == [err |-> e, val |-> <<>>]

SetMin(S) == CHOOSE x \in S : \A y \in S : x <= y

----------------------------------------------------------------------------
(* The interval algebra: module-level functions of ip_pool.py *)

\* the sort key of sort_and_merge_ip_ranges: (x[0].ip, x[1].ip)
KeyLt(x, y) == x[1].ip < y[1].ip \/ (x[1].ip = y[1].ip /\ x[2].ip < y[2].ip)

\* sorted() is stable: a pair goes after the pairs whose key is not greater
RECURSIVE InsertSorted(_, _)
InsertSorted(sorted, x) ==
    IF sorted = <<>> THEN <<x>>
    ELSE IF KeyLt(x, sorted[Len(sorted)])
         THEN Append(InsertSorted(SubSeq(sorted, 1, Len(sorted) - 1), x), sorted[Len(sorted)])
         ELSE Append(sorted, x)

RECURSIVE SortedRanges(_)
SortedRanges(ranges) ==
    IF ranges = <<>> THEN <<>>
    ELSE InsertSorted(SortedRanges(SubSeq(ranges, 1, Len(ranges) - 1)), ranges[Len(ranges)])

\* the loop's turn if it merged overlapping pairs only, leaving adjacent ones apart
MergeStepOverlapOnly(merged, current) ==
    LET last == merged[Len(merged)]
    IN  IF current[1].ip <= last[2].ip
        THEN [merged EXCEPT ![Len(merged)] = <<last[1], InterfaceMax(last[2], current[2])>>]
        ELSE Append(merged, current)

\* one turn of the loop of sort_and_merge_ip_ranges
MergeStep(merged, current) ==
    LET last == merged[Len(merged)]
    IN  IF current[1].ip <= last[2].ip + 1
        THEN [merged EXCEPT ![Len(merged)] = <<last[1], InterfaceMax(last[2], current[2])>>]
        ELSE Append(merged, current)

\* the loop: last_end.ip + 1 is computed in every turn
RECURSIVE MergeLoop(_, _)
MergeLoop(merged, rest) ==
    IF rest = <<>> THEN Ok(merged)
    ELSE IF IpPlusOneRaises(merged[Len(merged)][2]) THEN Raise("AddressValueError")
    ELSE MergeLoop(MergeStep(merged, Head(rest)), Tail(rest))

sort_and_merge_ip_ranges(ranges) ==
    IF ranges = <<>> THEN Ok(<<>>)
    ELSE LET sorted_ranges == SortedRanges(ranges)
         IN  MergeLoop(<<Head(sorted_ranges)>>, Tail(sorted_ranges))

\* what remove_ip_from_ranges puts in new_ranges for one (start, end)
RemoveFromPair(pair, interface) ==
    LET start == pair[1]
        end == pair[2]
    IN  IF start.ip <= interface.ip /\ interface.ip <= end.ip
        THEN (IF start.ip < interface.ip
              THEN <<  <<start, ip_interface(start.ver, interface.ip - 1, start.pl)>>  >>
              ELSE <<>>)
             \o
             (IF end.ip > interface.ip
              THEN <<  <<ip_interface(start.ver, interface.ip + 1, start.pl), end>>  >>
              ELSE <<>>)
        ELSE <<pair>>

RECURSIVE RemoveLoop(_, _)
RemoveLoop(ranges, interface) ==
    IF ranges = <<>> THEN <<>>
    ELSE RemoveFromPair(Head(ranges), interface) \o RemoveLoop(Tail(ranges), interface)

\* start.ip <= interface.ip <= end.ip raises TypeError when an address of the
\* other family is compared
CompareRaises(ranges, interface) ==
    \E k \in 1..Len(ranges) :
        \/ ranges[k][1].ver # interface.ver
        \/ (ranges[k][1].ip <= interface.ip /\ ranges[k][2].ver # interface.ver)

\* [err, found |-> ip_found, ranges |-> new_ranges]; IPNotInListError is found = FALSE
remove_ip_from_ranges(ranges, interface) ==
    IF CompareRaises(ranges, interface)
    THEN [err |-> "TypeError", found |-> FALSE, ranges |-> ranges]
    ELSE [err |-> "ok",
          found |-> \E k \in 1..Len(ranges) :
                        ranges[k][1].ip <= interface.ip /\ interface.ip <= ranges[k][2].ip,
          ranges |-> RemoveLoop(ranges, interface)]

is_in_ranges(ip, ranges) ==
    \E k \in 1..Len(ranges) :
        /\ ranges[k][1].ver = ip.ver /\ ranges[k][2].ver = ip.ver
        /\ ranges[k][1].ip <= ip.ip /\ ip.ip <= ranges[k][2].ip

----------------------------------------------------------------------------
(* Parsing: IPPool._update_netmask, _parse_ip_range, _generate_ip_ranges *)

\* an address string: without "/" it gets the default mask of its family
_update_netmask(ip) ==
    IF ip.ver \notin {4, 6} THEN Raise("InvalidIPAddressError")
    ELSE IF ip.pl # NoPrefix /\ (ip.pl < 0 \/ ip.pl > max_prefixlen(ip.ver))
    THEN Raise("InvalidIPAddressError")
    ELSE IF ip.pl # NoPrefix THEN Ok(ip_interface(ip.ver, ip.ip, ip.pl))
    ELSE IF ip.ver = 4 THEN Ok(ip_interface(ip.ver, ip.ip, ipv4_mask))
    ELSE Ok(ip_interface(ip.ver, ip.ip, ipv6_mask))

\* _parse_ip_range if it left out the comparison of start with end
_parse_ip_range_unordered(ip_range) ==
    IF Len(ip_range) = 2
    THEN LET start_interface == _update_netmask(ip_range[1])
             end_interface == _update_netmask(ip_range[2])
         IN  IF start_interface.err # "ok" THEN Raise(start_interface.err)
             ELSE IF end_interface.err # "ok" THEN Raise(end_interface.err)
             ELSE IF start_interface.val.ver # end_interface.val.ver
                  THEN Raise("InvalidIPAddressRangeError")
             ELSE IF Network(start_interface.val) # Network(end_interface.val)
                  THEN Raise("InvalidIPAddressRangeError")
             ELSE Ok(<<start_interface.val, end_interface.val>>)
    ELSE LET ip == _update_netmask(ip_range[1])
         IN  IF ip.err # "ok" THEN Raise(ip.err) ELSE Ok(<<ip.val, ip.val>>)

_parse_ip_range(ip_range) ==
    IF Len(ip_range) = 2
    THEN LET start_interface == _update_netmask(ip_range[1])
             end_interface == _update_netmask(ip_range[2])
         IN  IF start_interface.err # "ok" THEN Raise(start_interface.err)
             ELSE IF end_interface.err # "ok" THEN Raise(end_interface.err)
             ELSE IF start_interface.val.ver # end_interface.val.ver
                  THEN Raise("InvalidIPAddressRangeError")
             ELSE IF Network(start_interface.val) # Network(end_interface.val)
                  THEN Raise("InvalidIPAddressRangeError")
             ELSE IF InterfaceLt(end_interface.val, start_interface.val)
                  THEN Raise("InvalidIPAddressRangeError")
             ELSE Ok(<<start_interface.val, end_interface.val>>)
    ELSE LET ip == _update_netmask(ip_range[1])
         IN  IF ip.err # "ok" THEN Raise(ip.err) ELSE Ok(<<ip.val, ip.val>>)

\* the loop of _generate_ip_ranges if it compared the networks before the versions
RECURSIVE GenerateLoopNetworkFirst(_, _, _)
GenerateLoopNetworkFirst(ip_pool, k, st) ==
    IF k > Len(ip_pool) THEN st
    ELSE LET parsed == _parse_ip_range(ip_pool[k])
         IN  IF parsed.err # "ok" THEN [st EXCEPT !.err = parsed.err]
             ELSE LET start == parsed.val[1]
                      first == st.version = 0
                      ver == IF first THEN start.ver ELSE st.version
                      net == IF first THEN Network(start) ELSE st.network
                      st1 == [st EXCEPT !.version = ver, !.network = net]
                  IN  IF Network(start) # net THEN [st1 EXCEPT !.err = "InvalidNetworkError"]
                      ELSE IF start.ver # ver THEN [st1 EXCEPT !.err = "InvalidIPVersionError"]
                      ELSE GenerateLoopNetworkFirst(ip_pool, k + 1,
                                        [st1 EXCEPT !.result = Append(@, parsed.val)])

\* the loop of _generate_ip_ranges over ip_pool[k..]; st carries self.version,
\* self.network and result
RECURSIVE GenerateLoop(_, _, _)
GenerateLoop(ip_pool, k, st) ==
    IF k > Len(ip_pool) THEN st
    ELSE LET parsed == _parse_ip_range(ip_pool[k])
         IN  IF parsed.err # "ok" THEN [st EXCEPT !.err = parsed.err]
             ELSE LET start == parsed.val[1]
                      first == st.version = 0
                      ver == IF first THEN start.ver ELSE st.version
                      net == IF first THEN Network(start) ELSE st.network
                      st1 == [st EXCEPT !.version = ver, !.network = net]
                  IN  IF start.ver # ver THEN [st1 EXCEPT !.err = "InvalidIPVersionError"]
                      ELSE IF Network(start) # net THEN [st1 EXCEPT !.err = "InvalidNetworkError"]
                      ELSE GenerateLoop(ip_pool, k + 1,
                                        [st1 EXCEPT !.result = Append(@, parsed.val)])

NoNetwork == [ver |-> 0, addr |-> 0, pl |-> 0]

_generate_ip_ranges(ip_pool) ==
    LET st == GenerateLoop(ip_pool, 1,
                  [err |-> "ok", version |-> 0, network |-> NoNetwork, result |-> <<>>])
        merged == sort_and_merge_ip_ranges(st.result)
    IN  IF st.err # "ok" THEN [st EXCEPT !.result = <<>>]
        ELSE [st EXCEPT !.err = merged.err, !.result = merged.val]

----------------------------------------------------------------------------
(* The inputs of the model *)

Prefixes == {NoPrefix, 23}
AddressStrings == [ver : {4}, ip : Ips, pl : Prefixes]
RangeTokens == {<<a>> : a \in AddressStrings} \cup (AddressStrings \X AddressStrings)
PoolStrings == UNION {[1..n -> RangeTokens] : n \in 1..MaxTokens}
\* range tokens as a caller writes them: both ends in the same style, in order
WrittenTokens ==
    {<<a>> : a \in AddressStrings}
    \cup {t \in AddressStrings \X AddressStrings : t[1].pl = t[2].pl /\ t[1].ip <= t[2].ip}
WrittenPoolStrings == UNION {[1..n -> WrittenTokens] : n \in 1..MaxTokens}
\* "ffff:ffff:ffff:ffff:ffff:ffff:c000:1", an address of the other family
OtherFamilyAddress == [ver |-> 6, ip |-> 1, pl |-> NoPrefix]
\* batches of bare addresses, and single addresses written either way or of
\* the other family
Batches ==
    UNION {[1..n -> {a \in AddressStrings : a.pl = NoPrefix}] : n \in 0..MaxBatch}
    \cup {<<a>> : a \in AddressStrings}
    \cup {<<OtherFamilyAddress>>}

\* address strings for the parser: 10.0.0.255 and 10.0.1.0 of two /24 networks
\* and one /23 network, two IPv6 addresses (distances 1 and 2), each bare or with a prefix
\* in or out of range, and a string that is no address
NoAddress == [ver |-> 0, ip |-> 0, pl |-> NoPrefix]
ParseAddressStrings ==
    [ver : {4}, ip : {Ip4(10, 0, 0, 255), Ip4(10, 0, 1, 0)}, pl : {NoPrefix, 23, 24, 33}]
    \cup [ver : {6}, ip : {1, 2}, pl : {NoPrefix, 64, 129}]
    \cup {NoAddress}
ParseTokens == {<<a>> : a \in ParseAddressStrings} \cup (ParseAddressStrings \X ParseAddressStrings)
\* the bare addresses among them, for the pool strings of several tokens
BareAddressStrings == {a \in ParseAddressStrings : a.ver # 0 /\ a.pl = NoPrefix /\ a.ip # 2}
BareTokens == {<<a>> : a \in BareAddressStrings} \cup (BareAddressStrings \X BareAddressStrings)
ParsePoolStrings ==
    {<<t>> : t \in ParseTokens}
    \cup UNION {[1..n -> BareTokens] : n \in 2..MaxParseTokens}

\* the pools that take the failing batches: "10.0.0.254/23-10.0.1.0/23",
\* "10.0.0.254-10.0.0.255" and "10.0.0.254/23,10.0.1.0/23"
BatchPoolStrings ==
    {<<  <<[ver |-> 4, ip |-> Ip4(10, 0, 0, 254), pl |-> 23],
           [ver |-> 4, ip |-> Ip4(10, 0, 1, 0), pl |-> 23]>>  >>,
     <<  <<[ver |-> 4, ip |-> Ip4(10, 0, 0, 254), pl |-> NoPrefix],
           [ver |-> 4, ip |-> Ip4(10, 0, 0, 255), pl |-> NoPrefix]>>  >>,
     <<  <<[ver |-> 4, ip |-> Ip4(10, 0, 0, 254), pl |-> 23]>>,
         <<[ver |-> 4, ip |-> Ip4(10, 0, 1, 0), pl |-> 23]>>  >>}
\* their batches: 10.0.0.254, 10.0.0.255, 10.0.1.0 and the IPv6 address, in any
\* order and with repeats
FailBatchAddressStrings ==
    [ver : {4}, ip : Ip4(10, 0, 0, 254) .. Ip4(10, 0, 1, 0), pl : {NoPrefix}]
    \cup {OtherFamilyAddress}
FailBatches == UNION {[1..n -> FailBatchAddressStrings] : n \in 0..MaxFailBatch}

\* the long pools: "10.0.0.0/8-b/8" with MaxListLen addresses or a few more,
\* alone or followed by the single address two above b
LongPoolStrings ==
    LET a == [ver |-> 4, ip |-> Ip4(10, 0, 0, 0), pl |-> 8]
        b(d) == [a EXCEPT !.ip = a.ip + MaxListLen - 1 + d]
        c(d) == [a EXCEPT !.ip = a.ip + MaxListLen + 1 + d]
    IN  {<<  <<a, b(d)>>  >> : d \in 0..MaxOver}
        \cup {<<  <<a, b(d)>>, <<c(d)>>  >> : d \in 0..MaxOver}
\* their batches: 10.0.0.0 and 10.0.0.1, single or together, with the pool's prefix
LongBatches ==
    LET a == [ver |-> 4, ip |-> Ip4(10, 0, 0, 0), pl |-> 8]
        b == [ver |-> 4, ip |-> Ip4(10, 0, 0, 1), pl |-> 8]
    IN  {<<a>>, <<b>>, <<a, b>>}

\* the arguments of the interval algebra: the highest addresses of IPv6,
\* ffff:ffff:ffff:ffff:ffff:ffff:ffff:fffd .. ffff, with the prefix /64 or /112;
\* an interval has both ends in one network, in order; a list holds any
\* intervals in any order
TopInterfaces == [ver : {6}, ip : {1073741823 - d : d \in 0..MaxTopOffset}, pl : {64, 112}]
TopIntervals == {pair \in TopInterfaces \X TopInterfaces :
                    pair[1].pl = pair[2].pl /\ pair[1].ip <= pair[2].ip}
TopRanges == UNION {[1..n -> TopIntervals] : n \in 0..MaxRanges}
\* the address to remove: one of them, or 10.0.0.254/24
RemovedInterfaces == TopInterfaces \cup {[ver |-> 4, ip |-> Ip4(10, 0, 0, 254), pl |-> 24]}

----------------------------------------------------------------------------
(* IPPool *)

Call(op, arg, ret, err) == [op |-> op, arg |-> arg, ret |-> ret, err |-> err]

\* the addresses a range token "a" or "a-b" stands for
TokenIps(ip_range) == ip_range[1].ip .. ip_range[Len(ip_range)].ip

\* IPPool.__init__(ip_pool) with the default sep and masks; arg is what the
\* history keeps of the pool string
__init__(ip_pool, arg) ==
    LET generated == _generate_ip_ranges(ip_pool)
    IN  /\ pc = IF generated.err = "ok" THEN "ready" ELSE "failed"
        /\ version = generated.version
        /\ network = generated.network
        /\ available_ip_pool = generated.result
        /\ used_ips = <<>>
        /\ universe = IF generated.err = "ok"
                      THEN UNION {TokenIps(ip_pool[k]) : k \in 1..Len(ip_pool)}
                      ELSE {}
        /\ call = Call("new", arg, <<>>, generated.err)
        /\ ncalls = 0
        /\ fresh = TRUE
        /\ other = [available_ip_pool |-> generated.result, used_ips |-> <<>>]
        /\ future_dict = <<>>
        /\ result_dict = <<>>
        /\ multi_exception = <<>>

\* a pool constructed by its only caller
New(ip_pool, arg) == __init__(ip_pool, arg) /\ thread = <<>> /\ mutex = "none"

\* a pool after construction, for the calls that follow; the pool string is not kept
Init == \E ip_pool \in WrittenPoolStrings : New(ip_pool, <<>>)

\* a pool after construction, with the pool string it was made from
InitNew == \E ip_pool \in PoolStrings : New(ip_pool, ip_pool)

\* the body of allocate_ip on the two lists: the exception or "ok", what it
\* returns, and the two lists as it leaves them
AllocateFrom(available, used) ==
    IF available = <<>>
    THEN [err |-> "ValueError", ret |-> <<>>, available |-> available, used |-> used]
    ELSE LET start == Head(available)[1]
             end == Head(available)[2]
             appended == Append(used, <<start, start>>)
             merged == sort_and_merge_ip_ranges(appended)
             next_ip == ip_interface(start.ver, start.ip + 1, start.pl)
         IN  IF merged.err # "ok"
             THEN [err |-> merged.err, ret |-> <<>>,
                   available |-> Tail(available), used |-> appended]
             ELSE IF start # end /\ IpPlusOneRaises(start)
             THEN [err |-> "AddressValueError", ret |-> <<>>,
                   available |-> Tail(available), used |-> merged.val]
             ELSE [err |-> "ok", ret |-> <<start>>,
                   available |-> IF start # end
                                 THEN <<  <<next_ip, end>>  >> \o Tail(available)
                                 ELSE Tail(available),
                   used |-> merged.val]

allocate_ip ==
    /\ pc = "ready"
    /\ ncalls < MaxCalls
    /\ ncalls' = ncalls + 1
    /\ LET allocated == AllocateFrom(available_ip_pool, used_ips)
       IN  /\ available_ip_pool' = allocated.available
           /\ used_ips' = allocated.used
           /\ call' = Call("allocate_ip", <<>>, allocated.ret, allocated.err)
    /\ UNCHANGED <<thread, mutex, future_dict, result_dict, multi_exception, other, pc, version, network, universe, fresh>>

\* the loop if it took the addresses out of src without appending them to dst
RECURSIVE MoveLoopWithoutAppend(_, _, _, _, _)
MoveLoopWithoutAppend(batch, k, src, dst, not_in) ==
    IF k > Len(batch)
    THEN LET merged == sort_and_merge_ip_ranges(dst)
         IN  [err |-> merged.err, src |-> src,
              dst |-> IF merged.err = "ok" THEN merged.val ELSE dst,
              at |-> 0, exc |-> <<>>]
    ELSE LET ip_interface_ == _update_netmask(batch[k])
         IN  IF ip_interface_.err # "ok"
             THEN [err |-> ip_interface_.err, src |-> src, dst |-> dst,
                   at |-> k, exc |-> <<>>]
             ELSE LET removed == remove_ip_from_ranges(src, ip_interface_.val)
                  IN  IF removed.err # "ok"
                      THEN [err |-> removed.err, src |-> src, dst |-> dst,
                            at |-> k, exc |-> <<>>]
                      ELSE IF ~removed.found
                      THEN [err |-> not_in, src |-> src, dst |-> dst,
                            at |-> k, exc |-> <<ip_interface_.val, src>>]
                      ELSE MoveLoopWithoutAppend(batch, k + 1, removed.ranges, dst, not_in)

\* the loop of set_used_ips / unset_used_ips from element k on: addresses go
\* from the list src to the list dst; the merge of dst is reached only when
\* no element raises; exc is what the exception carries (e.ip, e.ip_list)
RECURSIVE MoveLoop(_, _, _, _, _)
MoveLoop(batch, k, src, dst, not_in) ==
    IF k > Len(batch)
    THEN LET merged == sort_and_merge_ip_ranges(dst)
         IN  [err |-> merged.err, src |-> src,
              dst |-> IF merged.err = "ok" THEN merged.val ELSE dst,
              at |-> 0, exc |-> <<>>]
    ELSE LET ip_interface_ == _update_netmask(batch[k])
         IN  IF ip_interface_.err # "ok"
             THEN [err |-> ip_interface_.err, src |-> src, dst |-> dst,
                   at |-> k, exc |-> <<>>]
             ELSE LET removed == remove_ip_from_ranges(src, ip_interface_.val)
                  IN  IF removed.err # "ok"
                      THEN [err |-> removed.err, src |-> src, dst |-> dst,
                            at |-> k, exc |-> <<>>]
                      ELSE IF ~removed.found
                      THEN [err |-> not_in, src |-> src, dst |-> dst,
                            at |-> k, exc |-> <<ip_interface_.val, src>>]
                      ELSE MoveLoop(batch, k + 1, removed.ranges,
                                    Append(dst, <<ip_interface_.val, ip_interface_.val>>),
                                    not_in)

\* what the history keeps of a batch: the elements the loop got to when it
\* raised, the one it raised on included; nothing when the loop ended
Attempted(batch, at) == SubSeq(batch, 1, at)

set_used_ips(used) ==
    /\ pc = "ready"
    /\ ncalls < MaxCalls
    /\ ncalls' = ncalls + 1
    /\ LET moved == MoveLoop(used, 1, available_ip_pool, used_ips, "NotInAvailableIPPoolError")
       IN  /\ available_ip_pool' = moved.src
           /\ used_ips' = moved.dst
           /\ call' = Call("set_used_ips", Attempted(used, moved.at), moved.exc, moved.err)
    /\ fresh' = FALSE
    /\ UNCHANGED <<thread, mutex, future_dict, result_dict, multi_exception, other, pc, version, network, universe>>

unset_used_ips(used) ==
    /\ pc = "ready"
    /\ ncalls < MaxCalls
    /\ ncalls' = ncalls + 1
    /\ LET moved == MoveLoop(used, 1, used_ips, available_ip_pool, "NotInUsedIPsError")
       IN  /\ used_ips' = moved.src
           /\ available_ip_pool' = moved.dst
           /\ call' = Call("unset_used_ips", Attempted(used, moved.at), moved.exc, moved.err)
    /\ fresh' = FALSE
    /\ UNCHANGED <<thread, mutex, future_dict, result_dict, multi_exception, other, pc, version, network, universe>>

\* the addresses current_ip .. end.ip of one pair, in the order the while loop
\* appends them, each with the prefix of start
PairIps(start, current_ip, end) ==
    IF current_ip > end.ip THEN <<>>
    ELSE [k \in 1..(end.ip - current_ip + 1) |->
             ip_interface(start.ver, current_ip + k - 1, start.pl)]

RECURSIVE ListLoop(_)
ListLoop(ip_tuple_list) ==
    IF ip_tuple_list = <<>> THEN <<>>
    ELSE PairIps(Head(ip_tuple_list)[1], Head(ip_tuple_list)[1].ip, Head(ip_tuple_list)[2])
         \o ListLoop(Tail(ip_tuple_list))

\* _list_ips(include_netmask=True): the guard len(ips) > 65536 is read before
\* every append, so it raises when more than MaxListLen + 1 addresses are asked for;
\* current_ip += 1 raises after the highest address of the family is appended
_list_ips(ip_tuple_list) ==
    LET raising == {k \in 1..Len(ip_tuple_list) :
                       /\ ip_tuple_list[k][1].ip <= ip_tuple_list[k][2].ip
                       /\ IpPlusOneRaises(ip_tuple_list[k][2])}
        upto == IF raising = {} THEN Len(ip_tuple_list) ELSE SetMin(raising)
        ips == ListLoop(SubSeq(ip_tuple_list, 1, upto))
    IN  IF Len(ips) > MaxListLen + 1 THEN Raise("TooManyIPsToExtendError")
        ELSE IF raising # {} THEN Raise("AddressValueError")
        ELSE Ok(ips)

cleanup_used_ips ==
    /\ pc = "ready"
    /\ ncalls < MaxCalls
    /\ ncalls' = ncalls + 1
    /\ LET listed == _list_ips(used_ips)
           moved == MoveLoop(listed.val, 1, used_ips, available_ip_pool, "NotInUsedIPsError")
       IN  IF listed.err # "ok"
           THEN /\ call' = Call("cleanup_used_ips", <<>>, <<>>, listed.err)
                /\ UNCHANGED <<available_ip_pool, used_ips>>
           ELSE /\ used_ips' = moved.src
                /\ available_ip_pool' = moved.dst
                /\ call' = Call("cleanup_used_ips", <<>>, moved.exc, moved.err)
    /\ fresh' = FALSE
    /\ UNCHANGED <<thread, mutex, future_dict, result_dict, multi_exception, other, pc, version, network, universe>>

list_available_ip == _list_ips(available_ip_pool)

list_used_ips == _list_ips(used_ips)

\* the membership queries; ip is an address string that _update_netmask accepts
is_in_available_ip_pool(ip) == is_in_ranges(_update_netmask(ip).val, available_ip_pool)

is_in_used_ips(ip) == is_in_ranges(_update_netmask(ip).val, used_ips)

\* IPPool.__contains__
contains(item) == is_in_ranges(_update_netmask(item).val, available_ip_pool \o used_ips)

\* str(interface) if it left the prefix out
StrWithoutPrefix(interface) == [ver |-> interface.ver, ip |-> interface.ip, pl |-> NoPrefix]

\* str(interface) and str(interface.ip) as address strings
Str(interface) == [ver |-> interface.ver, ip |-> interface.ip, pl |-> interface.pl]
StrIp(interface) == [ver |-> interface.ver, ip |-> interface.ip, pl |-> NoPrefix]

\* ",".join(a if start == end else a-b ...): the tokens, in order
RECURSIVE Render(_, _)
Render(ip_pool, with_prefix) ==
    IF ip_pool = <<>> THEN <<>>
    ELSE LET start == Head(ip_pool)[1]
             end == Head(ip_pool)[2]
             S(i) == IF with_prefix THEN Str(i) ELSE StrIp(i)
         IN  << IF start = end THEN <<S(start)>> ELSE <<S(start), S(end)>> >>
             \o Render(Tail(ip_pool), with_prefix)

PoolRepr(available, used) ==
    LET ip_pool == sort_and_merge_ip_ranges(available \o used)
    IN  IF ip_pool.err # "ok" THEN Raise(ip_pool.err) ELSE Ok(Render(ip_pool.val, TRUE))

PoolToString(available, used) ==
    LET ip_pool == sort_and_merge_ip_ranges(available \o used)
    IN  IF ip_pool.err # "ok" THEN Raise(ip_pool.err) ELSE Ok(Render(ip_pool.val, FALSE))

repr ==
    /\ pc = "ready"
    /\ LET rendered == PoolRepr(available_ip_pool, used_ips)
       IN  call' = Call("repr", <<>>, rendered.val, rendered.err)
    /\ UNCHANGED <<thread, mutex, future_dict, result_dict, multi_exception, other, pc, version, network, available_ip_pool, used_ips, universe, ncalls, fresh>>

to_string ==
    /\ pc = "ready"
    /\ LET rendered == PoolToString(available_ip_pool, used_ips)
       IN  call' = Call("to_string", <<>>, rendered.val, rendered.err)
    /\ UNCHANGED <<thread, mutex, future_dict, result_dict, multi_exception, other, pc, version, network, available_ip_pool, used_ips, universe, ncalls, fresh>>

\* the mutating methods, called in any order
Next ==
    \/ allocate_ip
    \/ \E used \in Batches : set_used_ips(used)
    \/ \E used \in Batches : unset_used_ips(used)
    \/ cleanup_used_ips

Spec == Init /\ [][Next]_vars

\* a pool after construction from a pool string of the parser's inputs
InitParse == \E ip_pool \in ParsePoolStrings : New(ip_pool, ip_pool)

\* construction followed by the rendering methods
NextNew ==
    \/ repr
    \/ to_string

SpecNew == InitNew /\ [][NextNew]_vars

SpecParse == InitParse /\ [][NextNew]_vars

\* a pool after construction, for the batches that are to fail
InitBatch == \E ip_pool \in BatchPoolStrings : New(ip_pool, <<>>)

\* a few calls of the mutating methods, the batches with more addresses
NextBatch ==
    \/ (ncalls < MaxBatchCalls /\ allocate_ip)
    \/ (ncalls < MaxBatchCalls /\ \E used \in FailBatches : set_used_ips(used))
    \/ (ncalls < MaxBatchCalls /\ \E used \in FailBatches : unset_used_ips(used))
    \/ (ncalls < MaxBatchCalls /\ cleanup_used_ips)

SpecBatch == InitBatch /\ [][NextBatch]_vars

\* a long pool after construction
InitLong == \E ip_pool \in LongPoolStrings : New(ip_pool, <<>>)

\* the mutating methods on a long pool
NextLong ==
    \/ allocate_ip
    \/ \E used \in LongBatches : set_used_ips(used)
    \/ \E used \in LongBatches : unset_used_ips(used)
    \/ cleanup_used_ips

SpecLong == InitLong /\ [][NextLong]_vars

\* IPPool.__eq__(other), other being a pool
eq == available_ip_pool = other.available_ip_pool /\ used_ips = other.used_ips

\* the caller turns to the second pool: the calls that follow are its calls
turn ==
    /\ pc = "ready"
    /\ available_ip_pool' = other.available_ip_pool
    /\ used_ips' = other.used_ips
    /\ other' = [available_ip_pool |-> available_ip_pool, used_ips |-> used_ips]
    /\ UNCHANGED <<pc, version, network, universe, call, ncalls, fresh>>
    /\ UNCHANGED <<future_dict, result_dict, multi_exception, thread, mutex>>

\* two pools made from one pool string, each taking calls of the mutating methods
NextPair ==
    \/ (ncalls < MaxPairCalls /\ allocate_ip)
    \/ (ncalls < MaxPairCalls /\ \E used \in Batches : set_used_ips(used))
    \/ (ncalls < MaxPairCalls /\ \E used \in Batches : unset_used_ips(used))
    \/ turn

SpecPair == Init /\ [][NextPair]_vars

\* no pool: a list of intervals and an address, for the functions of the
\* interval algebra
InitAlgebra ==
    /\ pc = "none"
    /\ version = 0
    /\ network = NoNetwork
    /\ available_ip_pool = <<>>
    /\ used_ips = <<>>
    /\ universe = {}
    /\ \E ranges \in TopRanges : \E interface \in RemovedInterfaces :
           call = Call("none", <<ranges, interface>>, <<>>, "ok")
    /\ ncalls = 0
    /\ fresh = TRUE
    /\ other = [available_ip_pool |-> <<>>, used_ips |-> <<>>]
    /\ future_dict = <<>>
    /\ result_dict = <<>>
    /\ multi_exception = <<>>
    /\ thread = <<>>
    /\ mutex = "none"

\* sort_and_merge_ip_ranges(ranges), on the list given or on a list it returned
call_sort_and_merge_ip_ranges ==
    /\ pc = "none"
    /\ \/ call.op = "none"
       \/ call.op = "sort_and_merge_ip_ranges" /\ call.err = "ok"
    /\ LET ranges == IF call.op = "none" THEN call.arg[1] ELSE call.ret
           merged == sort_and_merge_ip_ranges(ranges)
       IN  call' = Call("sort_and_merge_ip_ranges", ranges, merged.val, merged.err)
    /\ UNCHANGED <<thread, mutex, future_dict, result_dict, multi_exception, other, pc, version, network, available_ip_pool, used_ips, universe, ncalls, fresh>>

\* remove_ip_from_ranges(ranges, interface); IPNotInListError carries the
\* address and the list
call_remove_ip_from_ranges ==
    /\ pc = "none"
    /\ call.op = "none"
    /\ LET ranges == call.arg[1]
           interface == call.arg[2]
           removed == remove_ip_from_ranges(ranges, interface)
       IN  call' = IF removed.err # "ok"
                   THEN Call("remove_ip_from_ranges", call.arg, <<>>, removed.err)
                   ELSE IF ~removed.found
                   THEN Call("remove_ip_from_ranges", call.arg, <<interface, ranges>>,
                             "IPNotInListError")
                   ELSE Call("remove_ip_from_ranges", call.arg, removed.ranges, "ok")
    /\ UNCHANGED <<thread, mutex, future_dict, result_dict, multi_exception, other, pc, version, network, available_ip_pool, used_ips, universe, ncalls, fresh>>

NextAlgebra ==
    \/ call_sort_and_merge_ip_ranges
    \/ call_remove_ip_from_ranges

SpecAlgebra == InitAlgebra /\ [][NextAlgebra]_vars

----------------------------------------------------------------------------
(* Two threads calling one pool: a step is one list method call or one
   assignment of an attribute *)

Threads == {"a", "b"}

\* a thread outside any call
Idle == [at |-> "idle", pair |-> <<>>, ip_interface |-> <<>>, ranges |-> <<>>]

\* the pools the threads share: "10.0.0.254/23-10.0.1.0/23" and
\* "10.0.0.254/23,10.0.1.0/23"
ThreadPoolStrings == {ip_pool \in BatchPoolStrings : ip_pool[1][1].pl # NoPrefix}
\* the batches they give to set_used_ips: one address, written with the pool's prefix
ThreadBatches == {<<[ver |-> 4, ip |-> ip, pl |-> 23]>> : ip \in Ips}

\* a pool constructed, then shared by the threads, with or without a mutex
\* that a caller holds from the call to the return
InitThreads ==
    /\ \E ip_pool \in ThreadPoolStrings : __init__(ip_pool, <<>>)
    /\ thread = [t \in Threads |-> Idle]
    /\ mutex \in {"none", "free"}

\* what no step of a thread changes
kept == <<pc, version, network, universe, other, future_dict, result_dict, multi_exception>>

\* the mutex when thread t has taken it, and when a thread has given it back
Taken(t) == IF mutex = "none" THEN mutex ELSE t
Given == IF mutex = "none" THEN mutex ELSE "free"

\* thread t calls allocate_ip: `if not self.available_ip_pool: raise ValueError`
allocate_ip_check(t) ==
    /\ pc = "ready"
    /\ thread[t].at = "idle"
    /\ mutex \in {"none", "free"}
    /\ ncalls' = ncalls + 1
    /\ IF available_ip_pool = <<>>
       THEN /\ call' = Call("allocate_ip", <<>>, <<>>, "ValueError")
            /\ UNCHANGED <<thread, mutex>>
       ELSE /\ thread' = [thread EXCEPT ![t].at = "pop"]
            /\ mutex' = Taken(t)
            /\ UNCHANGED call
    /\ UNCHANGED <<kept, available_ip_pool, used_ips, fresh>>

\* the step if it read the first interval and left it in the list
allocate_ip_peek(t) ==
    /\ thread[t].at = "pop"
    /\ IF available_ip_pool = <<>>
       THEN /\ thread' = [thread EXCEPT ![t] = Idle]
            /\ mutex' = Given
            /\ call' = Call("allocate_ip", <<>>, <<>>, "IndexError")
            /\ UNCHANGED available_ip_pool
       ELSE /\ thread' = [thread EXCEPT ![t].at = "append", ![t].pair = Head(available_ip_pool)]
            /\ UNCHANGED <<available_ip_pool, mutex, call>>
    /\ UNCHANGED <<kept, used_ips, ncalls, fresh>>

\* `start, end = self.available_ip_pool.pop(0)`; pop raises IndexError on an
\* empty list
allocate_ip_pop(t) ==
    /\ thread[t].at = "pop"
    /\ IF available_ip_pool = <<>>
       THEN /\ thread' = [thread EXCEPT ![t] = Idle]
            /\ mutex' = Given
            /\ call' = Call("allocate_ip", <<>>, <<>>, "IndexError")
            /\ UNCHANGED available_ip_pool
       ELSE /\ thread' = [thread EXCEPT ![t].at = "append", ![t].pair = Head(available_ip_pool)]
            /\ available_ip_pool' = Tail(available_ip_pool)
            /\ UNCHANGED <<mutex, call>>
    /\ UNCHANGED <<kept, used_ips, ncalls, fresh>>

\* `self.used_ips.append((start, start))`
allocate_ip_append(t) ==
    /\ thread[t].at = "append"
    /\ used_ips' = Append(used_ips, <<thread[t].pair[1], thread[t].pair[1]>>)
    /\ thread' = [thread EXCEPT ![t].at = "merge"]
    /\ UNCHANGED <<kept, available_ip_pool, mutex, call, ncalls, fresh>>

\* `sort_and_merge_ip_ranges(self.used_ips)`: the list is read and the merged
\* list is built, not yet assigned
allocate_ip_merge(t) ==
    /\ thread[t].at = "merge"
    /\ LET merged == sort_and_merge_ip_ranges(used_ips)
       IN  IF merged.err # "ok"
           THEN /\ thread' = [thread EXCEPT ![t] = Idle]
                /\ mutex' = Given
                /\ call' = Call("allocate_ip", <<>>, <<>>, merged.err)
           ELSE /\ thread' = [thread EXCEPT ![t].at = "assign", ![t].ranges = merged.val]
                /\ UNCHANGED <<mutex, call>>
    /\ UNCHANGED <<kept, available_ip_pool, used_ips, ncalls, fresh>>

\* `self.used_ips = ...`
allocate_ip_assign(t) ==
    /\ thread[t].at = "assign"
    /\ used_ips' = thread[t].ranges
    /\ thread' = [thread EXCEPT ![t].at = "insert", ![t].ranges = <<>>]
    /\ UNCHANGED <<kept, available_ip_pool, mutex, call, ncalls, fresh>>

\* `if start != end: ... self.available_ip_pool.insert(0, (next_ip, end))`
\* and `return start`
allocate_ip_insert(t) ==
    /\ thread[t].at = "insert"
    /\ LET start == thread[t].pair[1]
           end == thread[t].pair[2]
           next_ip == ip_interface(start.ver, start.ip + 1, start.pl)
       IN  IF start # end /\ IpPlusOneRaises(start)
           THEN /\ call' = Call("allocate_ip", <<>>, <<>>, "AddressValueError")
                /\ UNCHANGED available_ip_pool
           ELSE /\ call' = Call("allocate_ip", <<>>, <<start>>, "ok")
                /\ available_ip_pool' = IF start # end
                                        THEN <<  <<next_ip, end>>  >> \o available_ip_pool
                                        ELSE available_ip_pool
    /\ thread' = [thread EXCEPT ![t] = Idle]
    /\ mutex' = Given
    /\ UNCHANGED <<kept, used_ips, ncalls, fresh>>

\* thread t calls set_used_ips([ip]): `ip_interface = self._update_netmask(ip)`
\* and `remove_ip_from_ranges(self.available_ip_pool, ip_interface)`: the list
\* is read and the new list is built, not yet assigned
set_used_ips_remove(t, used) ==
    /\ pc = "ready"
    /\ thread[t].at = "idle"
    /\ mutex \in {"none", "free"}
    /\ ncalls' = ncalls + 1
    /\ fresh' = FALSE
    /\ LET updated == _update_netmask(used[1])
           removed == remove_ip_from_ranges(available_ip_pool, updated.val)
           err == IF updated.err # "ok" THEN updated.err
                  ELSE IF removed.err # "ok" THEN removed.err
                  ELSE IF ~removed.found THEN "NotInAvailableIPPoolError"
                  ELSE "ok"
       IN  IF err # "ok"
           THEN /\ call' = Call("set_used_ips", <<>>, <<>>, err)
                /\ UNCHANGED <<thread, mutex>>
           ELSE /\ thread' = [thread EXCEPT ![t].at = "assign_available",
                                            ![t].ip_interface = <<updated.val>>,
                                            ![t].ranges = removed.ranges]
                /\ mutex' = Taken(t)
                /\ UNCHANGED call
    /\ UNCHANGED <<kept, available_ip_pool, used_ips>>

\* `self.available_ip_pool = ...`
set_used_ips_assign_available(t) ==
    /\ thread[t].at = "assign_available"
    /\ available_ip_pool' = thread[t].ranges
    /\ thread' = [thread EXCEPT ![t].at = "append_used", ![t].ranges = <<>>]
    /\ UNCHANGED <<kept, used_ips, mutex, call, ncalls, fresh>>

\* `self.used_ips.append((ip_interface, ip_interface))`
set_used_ips_append(t) ==
    /\ thread[t].at = "append_used"
    /\ used_ips' = Append(used_ips, <<thread[t].ip_interface[1], thread[t].ip_interface[1]>>)
    /\ thread' = [thread EXCEPT ![t].at = "merge_used"]
    /\ UNCHANGED <<kept, available_ip_pool, mutex, call, ncalls, fresh>>

\* `sort_and_merge_ip_ranges(self.used_ips)` after the loop
set_used_ips_merge(t) ==
    /\ thread[t].at = "merge_used"
    /\ LET merged == sort_and_merge_ip_ranges(used_ips)
       IN  IF merged.err # "ok"
           THEN /\ thread' = [thread EXCEPT ![t] = Idle]
                /\ mutex' = Given
                /\ call' = Call("set_used_ips", <<>>, <<>>, merged.err)
           ELSE /\ thread' = [thread EXCEPT ![t].at = "assign_used", ![t].ranges = merged.val]
                /\ UNCHANGED <<mutex, call>>
    /\ UNCHANGED <<kept, available_ip_pool, used_ips, ncalls, fresh>>

\* `self.used_ips = ...` and the return
set_used_ips_assign(t) ==
    /\ thread[t].at = "assign_used"
    /\ used_ips' = thread[t].ranges
    /\ thread' = [thread EXCEPT ![t] = Idle]
    /\ mutex' = Given
    /\ call' = Call("set_used_ips", <<>>, <<>>, "ok")
    /\ UNCHANGED <<kept, available_ip_pool, ncalls, fresh>>

\* the steps of the two threads, in any order
NextThreads ==
    \/ \E t \in Threads : (ncalls < MaxThreadCalls /\ allocate_ip_check(t))
    \/ \E t \in Threads : allocate_ip_pop(t)
    \/ \E t \in Threads : allocate_ip_append(t)
    \/ \E t \in Threads : allocate_ip_merge(t)
    \/ \E t \in Threads : allocate_ip_assign(t)
    \/ \E t \in Threads : allocate_ip_insert(t)
    \/ \E t \in Threads : \E used \in ThreadBatches :
           (ncalls < MaxThreadCalls /\ set_used_ips_remove(t, used))
    \/ \E t \in Threads : set_used_ips_assign_available(t)
    \/ \E t \in Threads : set_used_ips_append(t)
    \/ \E t \in Threads : set_used_ips_merge(t)
    \/ \E t \in Threads : set_used_ips_assign(t)

SpecThreads == InitThreads /\ [][NextThreads]_vars

----------------------------------------------------------------------------
(* smartiq_utils.thread_mixin and smartiq_utils.hash_mapping *)

\* hash(obj) of an int: the int itself, but -2 for -1
hash(obj) == IF obj = 0 - 1 THEN 0 - 2 ELSE obj

\* hash_complex_data((func_name, args, kwargs)): the tuple convert builds, which
\* str and sha256 keep apart from every other; a dict is the sequence of its
\* (key, value) pairs, of one pair at most, so that sorted leaves it as it is;
\* func_name is the same in every key of a mapping
hash_complex_data(data) ==
    <<data[1],
      [k \in 1..Len(data[2]) |-> hash(data[2][k])],
      [k \in 1..Len(data[3]) |-> <<data[3][k][1], hash(data[3][k][2])>>]>>

\* HashMapping.__setitem__(key, value) on the dict self.data
__setitem__(data, key, value) ==
    [h \in DOMAIN data \cup {hash_complex_data(key)} |->
        IF h = hash_complex_data(key) THEN <<key, value>> ELSE data[h]]

\* HashMapping.__len__ and MultipleException.__len__
__len__(data) == Cardinality(DOMAIN data)

\* MultipleException.add_exception
add_exception(data, func_name_with_args, exception) ==
    __setitem__(data, func_name_with_args, exception)

\* the (args, kwargs) pairs execute submits: a single argument becomes a
\* 1-tuple, the shorter list is padded, and no list at all gives one call
\* without arguments
zip_pair(args_list, kwargs_list) ==
    LET args_list_ == [k \in 1..Len(args_list) |->
                          IF args_list[k].tuple THEN args_list[k].val
                          ELSE <<args_list[k].val[1]>>]
        max_length == IF Len(args_list_) >= Len(kwargs_list)
                      THEN Len(args_list_) ELSE Len(kwargs_list)
        args_list_padded == [k \in 1..max_length |->
                                IF k <= Len(args_list_) THEN args_list_[k] ELSE <<>>]
        kwargs_list_padded == [k \in 1..max_length |->
                                  IF k <= Len(kwargs_list) THEN kwargs_list[k] ELSE <<>>]
    IN  IF max_length > 0
        THEN [k \in 1..max_length |-> <<args_list_padded[k], kwargs_list_padded[k]>>]
        ELSE << << <<>>, <<>> >> >>

\* the entries of an args_list: 1, -1 and -2 as single arguments (val holds the
\* argument), () and (1,) as tuples (val is the tuple)
ArgsEntries ==
    {[tuple |-> FALSE, val |-> <<x>>] : x \in {1, 0 - 1, 0 - 2}}
    \cup {[tuple |-> TRUE, val |-> <<>>], [tuple |-> TRUE, val |-> <<1>>]}
\* the entries of a kwargs_list: {} and {"b": 1}
KwargsEntries == {<<>>, << <<"b", 1>> >>}

\* execute(func_name, args_list, kwargs_list, check_result_callback,
\* raise_exception) is entered: nothing is submitted yet
InitExecute ==
    /\ pc = "submit"
    /\ version = 0
    /\ network = NoNetwork
    /\ available_ip_pool = <<>>
    /\ used_ips = <<>>
    /\ universe = {}
    /\ \E args_list \in UNION {[1..n -> ArgsEntries] : n \in 0..MaxArgs} :
       \E kwargs_list \in UNION {[1..n -> KwargsEntries] : n \in 0..MaxArgs} :
       \E check_result_callback, raise_exception \in BOOLEAN :
           call = Call("execute",
                       [args_list |-> args_list, kwargs_list |-> kwargs_list,
                        check_result_callback |-> check_result_callback,
                        raise_exception |-> raise_exception],
                       <<>>, "ok")
    /\ ncalls = 0
    /\ fresh = TRUE
    /\ other = [available_ip_pool |-> <<>>, used_ips |-> <<>>]
    /\ future_dict = <<>>
    /\ result_dict = <<>>
    /\ multi_exception = <<>>
    /\ thread = <<>>
    /\ mutex = "none"

\* what no step of execute changes
pool == <<version, network, available_ip_pool, used_ips, universe, ncalls, fresh, other,
         thread, mutex>>

\* one round of the loop over zip_pair: executor.submit and future_dict.update;
\* after the last pair the loop over as_completed begins
submit ==
    /\ pc = "submit"
    /\ LET pairs == zip_pair(call.arg.args_list, call.arg.kwargs_list)
           k == Len(future_dict) + 1
       IN  IF k <= Len(pairs)
           THEN /\ future_dict' = Append(future_dict,
                                         [func_name_with_args |->
                                              <<"func_name", pairs[k][1], pairs[k][2]>>,
                                          state |-> "pending", yielded |-> FALSE])
                /\ pc' = pc
           ELSE /\ pc' = "as_completed"
                /\ UNCHANGED future_dict
    /\ UNCHANGED <<pool, call, result_dict, multi_exception>>

\* a thread of the executor runs a submitted call, which returns or raises
run(future) ==
    /\ pc \in {"submit", "as_completed"}
    /\ future_dict[future].state = "pending"
    /\ \E state \in {"returned", "raised"} :
           future_dict' = [future_dict EXCEPT ![future].state = state]
    /\ UNCHANGED <<pool, pc, call, result_dict, multi_exception>>

\* one round of the loop over as_completed: a finished future is yielded, the
\* callback, if there is one, returns None, an Exception or another result, and
\* the call is recorded as a result or as an exception
as_completed(future) ==
    /\ pc = "as_completed"
    /\ future_dict[future].state # "pending"
    /\ ~future_dict[future].yielded
    /\ future_dict' = [future_dict EXCEPT ![future].yielded = TRUE]
    /\ LET func_name_with_args == future_dict[future].func_name_with_args
       IN  \E callback_result \in IF call.arg.check_result_callback
                                  THEN {"None", "Exception", "result"} ELSE {"None"} :
               IF future_dict[future].state = "raised" \/ callback_result = "Exception"
               THEN /\ multi_exception' = add_exception(multi_exception, func_name_with_args,
                                                        [future |-> future])
                    /\ UNCHANGED result_dict
               ELSE /\ result_dict' = __setitem__(result_dict, func_name_with_args,
                                                  [future |-> future,
                                                   callback_result |-> callback_result])
                    /\ UNCHANGED multi_exception
    /\ UNCHANGED <<pool, pc, call>>

\* as_completed has yielded every future: execute raises multi_exception or
\* returns the two mappings
return ==
    /\ pc = "as_completed"
    /\ \A future \in 1..Len(future_dict) : future_dict[future].yielded
    /\ IF call.arg.raise_exception /\ __len__(multi_exception) > 0
       THEN /\ pc' = "raised"
            /\ call' = [call EXCEPT !.ret = multi_exception, !.err = "MultipleException"]
       ELSE /\ pc' = "returned"
            /\ call' = [call EXCEPT !.ret = <<result_dict, multi_exception>>]
    /\ UNCHANGED <<pool, future_dict, result_dict, multi_exception>>

\* a call is still running when the timeout of as_completed ends
timeout ==
    /\ pc = "as_completed"
    /\ \E future \in 1..Len(future_dict) : future_dict[future].state = "pending"
    /\ pc' = "raised"
    /\ call' = [call EXCEPT !.err = "TimeoutError"]
    /\ UNCHANGED <<pool, future_dict, result_dict, multi_exception>>

NextExecute ==
    \/ submit
    \/ \E future \in 1..Len(future_dict) : run(future)
    \/ \E future \in 1..Len(future_dict) : as_completed(future)
    \/ return
    \/ timeout

SpecExecute == InitExecute /\ [][NextExecute]_vars

----------------------------------------------------------------------------
(* The addresses a list of pairs covers *)

PairIpSet(pair) == pair[1].ip .. pair[2].ip
Covered(ranges) == UNION {PairIpSet(ranges[k]) : k \in 1..Len(ranges)}

Endpoints(ranges) == UNION {{ranges[k][1], ranges[k][2]} : k \in 1..Len(ranges)}

\* sorted ascending by start address, consecutive intervals neither overlapping nor adjacent
IsCanonical(ranges) ==
    \A k \in 1..(Len(ranges) - 1) :
        /\ ranges[k][1].ip <= ranges[k + 1][1].ip
        /\ ranges[k + 1][1].ip > ranges[k][2].ip + 1

----------------------------------------------------------------------------
(* The claims *)

\* C1: in every state of a constructed pool, the addresses covered by
\* available together with used are exactly the addresses given at construction.
C1_Partition ==
    pc = "ready" =>
        Covered(available_ip_pool) \cup Covered(used_ips) = universe

\* C2: in every state of a constructed pool, no address is covered both by an
\* interval of available and by an interval of used.
C2_Disjoint ==
    pc = "ready" =>
        Covered(available_ip_pool) \cap Covered(used_ips) = {}

\* C3: after construction and after every call, returning or raising, both
\* lists are sorted by start address with next.start > previous.end + 1.
C3_CanonicalForm ==
    pc = "ready" => IsCanonical(available_ip_pool) /\ IsCanonical(used_ips)

\* C4: in every state of a constructed pool, both endpoints of every interval
\* of available and used have the pool's family and the pool's network.
C4_FamilyNetwork ==
    pc = "ready" =>
        \A e \in Endpoints(available_ip_pool) \cup Endpoints(used_ips) :
            e.ver = version /\ Network(e) = network

\* C5: whenever available covers at least one address, allocate_ip returns the
\* lowest address available covers, and afterwards used covers that address
\* and available does not.
C5_AllocateLowest ==
    [][(allocate_ip /\ Covered(available_ip_pool) # {}) =>
          /\ call'.err = "ok"
          /\ call'.ret[1].ip = SetMin(Covered(available_ip_pool))
          /\ call'.ret[1].ip \in Covered(used_ips')
          /\ call'.ret[1].ip \notin Covered(available_ip_pool')]_vars

\* C6: of two successful allocate_ip calls with no other call in between, the
\* second returns a strictly greater address than the first.
C6_AllocateIncreasing ==
    [][(call.op = "allocate_ip" /\ call.err = "ok" /\ allocate_ip /\ call'.err = "ok") =>
          call'.ret[1].ip > call.ret[1].ip]_vars

\* the k-th lowest element of a set of integers
RECURSIVE KthLowest(_, _)
KthLowest(S, k) == IF k = 1 THEN SetMin(S) ELSE KthLowest(S \ {SetMin(S)}, k - 1)

\* C7: allocate_ip raises exactly when available covers no address; on a fresh
\* pool of n addresses the first n calls return the n addresses and call n+1 raises.
C7_ExhaustedExactly ==
    /\ [][allocate_ip =>
            (call'.err = "ValueError" <=> Covered(available_ip_pool) = {})]_vars
    /\ []((pc = "ready" /\ fresh /\ call.op = "allocate_ip") =>
            IF ncalls <= Cardinality(universe)
            THEN call.err = "ok" /\ call.ret[1].ip = KthLowest(universe, ncalls)
            ELSE call.err = "ValueError")

\* C8: in every state of a constructed pool, a pool constructed from
\* to_string() exists and has the same to_string().
C8_RoundTrip ==
    pc = "ready" =>
        LET s == PoolToString(available_ip_pool, used_ips)
            generated == _generate_ip_ranges(s.val)
        IN  /\ s.err = "ok"
            /\ generated.err = "ok"
            /\ PoolToString(generated.result, <<>>) = s

\* a pool string of one token, "a/p" or "a/p-b/q" with a below b, every prefix written
IsCanonicalExplicitToken(ip_pool) ==
    /\ Len(ip_pool) = 1
    /\ \A k \in 1..Len(ip_pool[1]) : ip_pool[1][k].pl # NoPrefix
    /\ Len(ip_pool[1]) = 2 => ip_pool[1][1].ip < ip_pool[1][2].ip

\* the range string with "/prefix" taken off every address
Bare(ip_pool) ==
    [k \in 1..Len(ip_pool) |->
        [j \in 1..Len(ip_pool[k]) |-> [ip_pool[k][j] EXCEPT !.pl = NoPrefix]]]

\* C9 as stated: to_string() of a pool made from one canonical range token
\* with explicit prefixes is exactly that token.
C9_ToStringIsInput ==
    [][(call.op = "new" /\ pc = "ready" /\ IsCanonicalExplicitToken(call.arg) /\ to_string) =>
          call'.ret = call.arg]_vars

\* C9 amended: for such a pool repr() is exactly the input string, and
\* to_string() is the input string without its prefixes.
C9_ReprIsInput ==
    [][(call.op = "new" /\ pc = "ready" /\ IsCanonicalExplicitToken(call.arg)) =>
          /\ repr => call'.ret = call.arg
          /\ to_string => call'.ret = Bare(call.arg)]_vars

\* C9 witness: repr() of a fresh pool returned one range a/p-b/p
C9_Witness ==
    /\ call.op = "repr" /\ ncalls = 0
    /\ Len(call.ret) = 1 /\ Len(call.ret[1]) = 2
    /\ call.ret[1][1].pl = 23 /\ call.ret[1][2].pl = 23

\* the maximal runs of consecutive addresses of S, ascending, as intervals of prefix pl
RECURSIVE Runs(_, _, _)
Runs(S, ver, pl) ==
    IF S = {} THEN <<>>
    ELSE LET a == SetMin(S)
             b == CHOOSE y \in S : y >= a /\ (\A z \in a..y : z \in S) /\ (y + 1) \notin S
         IN  <<  <<ip_interface(ver, a, pl), ip_interface(ver, b, pl)>>  >>
             \o Runs(S \ (a..b), ver, pl)

\* the runs written "a/p" or "a/p-b/p"
RunsString(runs) ==
    [k \in 1..Len(runs) |->
        IF runs[k][1].ip = runs[k][2].ip THEN <<runs[k][1]>> ELSE <<runs[k][1], runs[k][2]>>]

\* the prefix the first address of a pool string has, written or by default
WrittenPrefix(ip_pool) ==
    IF ip_pool[1][1].pl # NoPrefix THEN ip_pool[1][1].pl
    ELSE IF ip_pool[1][1].ver = 4 THEN 24 ELSE 64

WithDefault(a) ==
    IF a.pl # NoPrefix THEN a
    ELSE [a EXCEPT !.pl = IF a.ver = 4 THEN 24 ELSE 64]

\* an address string that is an address literal with a prefix in range, if any
IsValidAddress(a) ==
    /\ a.ver \in {4, 6}
    /\ a.pl = NoPrefix \/ (0 <= a.pl /\ a.pl <= (IF a.ver = 4 THEN 32 ELSE 128))

\* a range token the claim C12 accepts
IsValidToken(t) ==
    /\ \A j \in 1..Len(t) : IsValidAddress(t[j])
    /\ Len(t) = 2 =>
           /\ t[1].ver = t[2].ver
           /\ Network(WithDefault(t[1])) = Network(WithDefault(t[2]))
           /\ t[1].ip <= t[2].ip

\* token k differs from the first token in family, or in network
FamilyDiffers(ip_pool, k) == ip_pool[k][1].ver # ip_pool[1][1].ver
NetworkDiffers(ip_pool, k) ==
    Network(WithDefault(ip_pool[k][1])) # Network(WithDefault(ip_pool[1][1]))

\* C11 as stated: of tokens that are valid each on its own, a token of another
\* family anywhere makes construction fail with InvalidIPVersionError; with
\* none, a token of another network makes it fail with InvalidNetworkError.
C11_VersionBeforeNetwork ==
    (call.op = "new" /\ \A k \in 1..Len(call.arg) : IsValidToken(call.arg[k])) =>
        IF \E k \in 2..Len(call.arg) : FamilyDiffers(call.arg, k)
        THEN pc = "failed" /\ call.err = "InvalidIPVersionError"
        ELSE (\E k \in 2..Len(call.arg) : NetworkDiffers(call.arg, k)) =>
                 pc = "failed" /\ call.err = "InvalidNetworkError"

\* C11 amended: the first token, in order, that differs from the first token
\* in family or in network decides: InvalidIPVersionError when its family
\* differs, InvalidNetworkError otherwise; no pool is produced.
C11_FirstOffendingToken ==
    (call.op = "new" /\ \A k \in 1..Len(call.arg) : IsValidToken(call.arg[k])) =>
        LET offending == {k \in 2..Len(call.arg) :
                             FamilyDiffers(call.arg, k) \/ NetworkDiffers(call.arg, k)}
        IN  offending # {} =>
                /\ pc = "failed"
                /\ available_ip_pool = <<>> /\ used_ips = <<>>
                /\ call.err = IF FamilyDiffers(call.arg, SetMin(offending))
                              THEN "InvalidIPVersionError"
                              ELSE "InvalidNetworkError"

\* C11 witness: construction failed on a second token of another network
\* although the third token is of the other family
C11_Witness ==
    /\ call.op = "new" /\ pc = "failed" /\ call.err = "InvalidNetworkError"
    /\ Len(call.arg) = 3
    /\ \A k \in 1..3 : IsValidToken(call.arg[k])
    /\ ~FamilyDiffers(call.arg, 2) /\ FamilyDiffers(call.arg, 3)

\* C12: a token a-b is rejected with InvalidIPAddressRangeError when a and b
\* differ in family or in network or a is above b, and yields (a, b)
\* otherwise; a token a yields (a, a); an address that is no literal or has a
\* prefix out of range is rejected with InvalidIPAddressError.
C12_RangeToken ==
    (call.op = "new" /\ Len(call.arg) = 1) =>
        LET t == call.arg[1]
            a == t[1]
            b == t[Len(t)]
        IN  IF ~IsValidAddress(a) \/ ~IsValidAddress(b)
            THEN pc = "failed" /\ call.err = "InvalidIPAddressError"
            ELSE IF Len(t) = 2 /\ (\/ a.ver # b.ver
                                   \/ Network(WithDefault(a)) # Network(WithDefault(b))
                                   \/ a.ip > b.ip)
            THEN pc = "failed" /\ call.err = "InvalidIPAddressRangeError"
            ELSE /\ pc = "ready"
                 /\ available_ip_pool = <<  <<WithDefault(a), WithDefault(b)>>  >>

\* C12 witness: a token a-b with a below b was accepted
C12_Witness ==
    /\ call.op = "new" /\ pc = "ready"
    /\ Len(call.arg) = 1 /\ Len(call.arg[1]) = 2
    /\ call.arg[1][1].ip < call.arg[1][2].ip

\* the addresses a batch names, and those of its first n elements
BatchIps(batch) == {batch[k].ip : k \in 1..Len(batch)}
FirstIps(batch, n) == {batch[k].ip : k \in 1..n}

\* a batch of distinct addresses of the pool's family
IsDistinct(batch) ==
    /\ \A k \in 1..Len(batch) : batch[k].ver = version
    /\ \A j, k \in 1..Len(batch) : j # k => batch[j].ip # batch[k].ip

\* every address of S is on the same side before and after the step
SidesKept(S) ==
    \A a \in S :
        /\ a \in Covered(available_ip_pool') <=> a \in Covered(available_ip_pool)
        /\ a \in Covered(used_ips') <=> a \in Covered(used_ips)

\* C13: set_used_ips of distinct addresses that are all available succeeds;
\* afterwards each of them is in used and not in available, and every other
\* address of the universe is on the side it was on.
C13_SetUsedMoves ==
    [][call'.op = "set_used_ips" =>
          \A used \in Batches :
              (/\ set_used_ips(used)
               /\ IsDistinct(used)
               /\ BatchIps(used) \subseteq Covered(available_ip_pool)) =>
                  /\ call'.err = "ok"
                  /\ BatchIps(used) \subseteq Covered(used_ips')
                  /\ BatchIps(used) \cap Covered(available_ip_pool') = {}
                  /\ SidesKept(universe \ BatchIps(used))]_vars

\* C14: unset_used_ips of distinct addresses that are all used succeeds;
\* afterwards each of them is in available and not in used, and every other
\* address of the universe is on the side it was on.
C14_UnsetUsedMoves ==
    [][call'.op = "unset_used_ips" =>
          \A used \in Batches :
              (/\ unset_used_ips(used)
               /\ IsDistinct(used)
               /\ BatchIps(used) \subseteq Covered(used_ips)) =>
                  /\ call'.err = "ok"
                  /\ BatchIps(used) \subseteq Covered(available_ip_pool')
                  /\ BatchIps(used) \cap Covered(used_ips') = {}
                  /\ SidesKept(universe \ BatchIps(used))]_vars

\* element k of the batch is reached with its address not in the list that
\* covers S: the elements before it are distinct addresses of S, and it is
\* of the other family, outside S, or one of those before it
FailsAt(batch, k, S) ==
    /\ \A j \in 1..(k - 1) : batch[j].ver = version /\ batch[j].ip \in S
    /\ \A i, j \in 1..(k - 1) : i # j => batch[i].ip # batch[j].ip
    /\ \/ batch[k].ver # version
       \/ batch[k].ip \notin S
       \/ batch[k].ip \in FirstIps(batch, k - 1)

\* C15: set_used_ips raises NotInAvailableIPPoolError, with the address and
\* the available list, for an address that is not available: outside the
\* universe, used, repeated in the batch, or of the other family.
C15_SetUsedRejects ==
    [][call'.op = "set_used_ips" =>
          \A used \in Batches : \A k \in 1..Len(used) :
              (set_used_ips(used) /\ FailsAt(used, k, Covered(available_ip_pool))) =>
                  /\ call'.err = "NotInAvailableIPPoolError"
                  /\ call'.ret = <<WithDefault(used[k]), available_ip_pool'>>]_vars

\* C16: unset_used_ips raises NotInUsedIPsError, with the address and the
\* used list, for an address that is not used: outside the universe,
\* available, repeated in the batch, or of the other family.
C16_UnsetUsedRejects ==
    [][call'.op = "unset_used_ips" =>
          \A used \in Batches : \A k \in 1..Len(used) :
              (unset_used_ips(used) /\ FailsAt(used, k, Covered(used_ips))) =>
                  /\ call'.err = "NotInUsedIPsError"
                  /\ call'.ret = <<WithDefault(used[k]), used_ips'>>]_vars

\* the element a batch fails on when its addresses are taken, in order, out
\* of the list that covers S: the first that is no address, is of the other
\* family, is not in S, or repeats an earlier one (0: none)
FailIndex(batch, S) ==
    LET failing == {k \in 1..Len(batch) :
                       \/ ~IsValidAddress(batch[k])
                       \/ batch[k].ver # version
                       \/ batch[k].ip \notin S
                       \/ batch[k].ip \in FirstIps(batch, k - 1)}
    IN  IF failing = {} THEN 0 ELSE SetMin(failing)

\* the first k-1 addresses of the batch, and no others, went from src to dst;
\* with k = 1 the two lists are as they were
MovedBeforeFailure(batch, k, src, dst, src_after, dst_after) ==
    /\ k >= 1
    /\ k = 1 => (src_after = src /\ dst_after = dst)
    /\ Covered(src_after) = Covered(src) \ FirstIps(batch, k - 1)
    /\ Covered(dst_after) = Covered(dst) \cup FirstIps(batch, k - 1)

C18_CleanupReleasesAll ==
    [][cleanup_used_ips =>
          /\ call'.err = "ok"
          /\ Covered(used_ips') = {}
          /\ Covered(available_ip_pool') = universe]_vars

\* the addresses asked about: those of the model, written either way, and
\* one of the other family
QueryAddressStrings == AddressStrings \cup {OtherFamilyAddress}

\* C19: is_in_available_ip_pool(a) and is_in_used_ips(a) hold exactly when a
\* lies in an interval of the list, contains(a) when one of the two holds; an
\* address of the other family gives false; and in every state contains(a)
\* holds exactly for the addresses given at construction.
C19_Membership ==
    pc = "ready" =>
        \A a \in QueryAddressStrings :
            /\ is_in_available_ip_pool(a) <=>
                   (a.ver = version /\ a.ip \in Covered(available_ip_pool))
            /\ is_in_used_ips(a) <=> (a.ver = version /\ a.ip \in Covered(used_ips))
            /\ contains(a) <=> (is_in_available_ip_pool(a) \/ is_in_used_ips(a))
            /\ a.ver # version => ~contains(a)
            /\ contains(a) <=> (a.ver = version /\ a.ip \in universe)

\* the number of addresses the intervals of a list hold
RECURSIVE Size(_)
Size(ranges) ==
    IF ranges = <<>> THEN 0
    ELSE (IF Head(ranges)[2].ip < Head(ranges)[1].ip THEN 0
          ELSE Head(ranges)[2].ip - Head(ranges)[1].ip + 1)
         + Size(Tail(ranges))

\* listed is what listing the intervals of ranges must give: an error exactly
\* when they hold more than MaxListLen addresses, and otherwise every address
\* they cover, once, in ascending order
IsListOf(listed, ranges) ==
    /\ listed.err = "TooManyIPsToExtendError" <=> Size(ranges) > MaxListLen
    /\ listed.err = "ok" =>
           /\ \A k \in 1..(Len(listed.val) - 1) : listed.val[k].ip < listed.val[k + 1].ip
           /\ {listed.val[k].ip : k \in 1..Len(listed.val)} = Covered(ranges)

\* C20: list_available_ip and list_used_ips raise TooManyIPsToExtendError
\* exactly when the list would hold more than 65536 addresses, and otherwise
\* return every address of the list once, in ascending order.
C20_ListCap ==
    pc = "ready" =>
        /\ IsListOf(list_available_ip, available_ip_pool)
        /\ IsListOf(list_used_ips, used_ips)

\* C22: sort_and_merge_ip_ranges of what sort_and_merge_ip_ranges returned for
\* a list of intervals is that same list, and sort_and_merge_ip_ranges of a
\* canonical list is the list itself.
C22_Idempotent ==
    (call.op = "sort_and_merge_ip_ranges") =>
        /\ call.err = "ok"
        /\ sort_and_merge_ip_ranges(call.ret) = Ok(call.ret)
        /\ IsCanonical(call.arg) => call.ret = call.arg

\* the addresses of the intervals, without the prefixes
IpPairs(ranges) == [k \in 1..Len(ranges) |-> <<ranges[k][1].ip, ranges[k][2].ip>>]

\* C25: sort_and_merge_ip_ranges of valid intervals of one family, the highest
\* address included, returns the maximal runs of the addresses they cover, in
\* ascending order: it covers what they cover, is sorted, has
\* next.start > previous.end + 1, and every merged interval ends at the
\* greatest end address.
C25_MergeCorrect ==
    (call.op = "sort_and_merge_ip_ranges") =>
        /\ call.err = "ok"
        /\ Covered(call.ret) = Covered(call.arg)
        /\ IsCanonical(call.ret)
        /\ IpPairs(call.ret) = IpPairs(Runs(Covered(call.arg), 6, 64))

\* what is to stand in the place of the interval (start, end) that contains a
RemainingPieces(start, end, a) ==
    (IF start.ip < a.ip THEN <<  <<start.ip, a.ip - 1>>  >> ELSE <<>>)
    \o (IF end.ip > a.ip THEN <<  <<a.ip + 1, end.ip>>  >> ELSE <<>>)

\* C26: for a canonical list R and an address a, remove_ip_from_ranges returns
\* R with the interval that contains a replaced, in place, by what remains of
\* it below and above a, every other interval as it was, the result canonical
\* and covering the addresses of R but a; when no interval contains a it
\* raises IPNotInListError with a and R.
C26_RemoveCorrect ==
    (call.op = "remove_ip_from_ranges" /\ IsCanonical(call.arg[1])) =>
        LET R == call.arg[1]
            a == call.arg[2]
            containing == {k \in 1..Len(R) :
                              /\ R[k][1].ver = a.ver
                              /\ R[k][1].ip <= a.ip /\ a.ip <= R[k][2].ip}
        IN  IF containing = {}
            THEN call.err = "IPNotInListError" /\ call.ret = <<a, R>>
            ELSE LET k == SetMin(containing)
                     pieces == RemainingPieces(R[k][1], R[k][2], a)
                 IN  /\ call.err = "ok"
                     /\ Covered(call.ret) = Covered(R) \ {a.ip}
                     /\ IsCanonical(call.ret)
                     /\ Len(call.ret) = Len(R) - 1 + Len(pieces)
                     /\ SubSeq(call.ret, 1, k - 1) = SubSeq(R, 1, k - 1)
                     /\ IpPairs(SubSeq(call.ret, k, k + Len(pieces) - 1)) = pieces
                     /\ SubSeq(call.ret, k + Len(pieces), Len(call.ret))
                            = SubSeq(R, k + 1, Len(R))

\* every interval of the list has its start at or below its end, and start
\* and end the same value when they are the same address
IsWellFormed(ranges) ==
    \A k \in 1..Len(ranges) :
        /\ ranges[k][1].ip <= ranges[k][2].ip
        /\ ranges[k][1].ip = ranges[k][2].ip => ranges[k][1] = ranges[k][2]

\* C27: in every state reached by calls of allocate_ip, set_used_ips,
\* unset_used_ips and cleanup_used_ips, every interval of available and used
\* has start.ip <= end.ip, and start = end when their addresses are equal.
C27_WellFormed ==
    pc = "ready" => IsWellFormed(available_ip_pool) /\ IsWellFormed(used_ips)

\* C28: allocate_ip never returns an address that was not given at
\* construction, nor one that used covers when it is called.
C28_NoDoubleAllocation ==
    [][(allocate_ip /\ call'.err = "ok") =>
          /\ call'.ret[1].ip \in universe
          /\ call'.ret[1].ip \notin Covered(used_ips)]_vars

\* C29: in every state allocate_ip raises when available covers no address
\* and otherwise takes exactly one address out of available, of which there
\* are at most as many as were given at construction; so calls of allocate_ip
\* with no release in between succeed exactly as many times as available
\* covered addresses, and the next one raises.
C29_ExhaustionReached ==
    [][allocate_ip =>
          IF Covered(available_ip_pool) = {}
          THEN call'.err = "ValueError"
          ELSE /\ call'.err = "ok"
               /\ Cardinality(Covered(available_ip_pool)) <= Cardinality(universe)
               /\ Cardinality(Covered(available_ip_pool'))
                      = Cardinality(Covered(available_ip_pool)) - 1]_vars

\* the two lists after unset_used_ips(batch) are those of the state, and the
\* call succeeded; used and available are the lists unset_used_ips finds
RestoredBy(batch, used, available) ==
    LET unset == MoveLoop(batch, 1, used, available, "NotInUsedIPsError")
    IN  /\ unset.err = "ok"
        /\ unset.dst = available_ip_pool
        /\ unset.src = used_ips
        /\ PoolRepr(unset.dst, unset.src) = PoolRepr(available_ip_pool, used_ips)

\* C30: in every state, set_used_ips(A) followed by unset_used_ips(A), for
\* distinct available addresses A written with or without a prefix, leaves the
\* two lists (which __eq__ compares) and repr() as they were; so does
\* allocate_ip followed by unset_used_ips of what it returned, given as the
\* value or as the bare address.
C30_RoundTrip ==
    pc = "ready" =>
        /\ \A A \in Batches :
               (IsDistinct(A) /\ BatchIps(A) \subseteq Covered(available_ip_pool)) =>
                   LET set == MoveLoop(A, 1, available_ip_pool, used_ips,
                                       "NotInAvailableIPPoolError")
                   IN  set.err = "ok" /\ RestoredBy(A, set.dst, set.src)
        /\ LET allocated == AllocateFrom(available_ip_pool, used_ips)
           IN  allocated.err = "ok" =>
                   /\ RestoredBy(<<Str(allocated.ret[1])>>, allocated.used, allocated.available)
                   /\ RestoredBy(<<StrIp(allocated.ret[1])>>, allocated.used, allocated.available)

\* C21: two pools made from the same pool string that hold the same set of
\* available addresses and the same set of used addresses compare equal,
\* whatever calls of allocate_ip, set_used_ips and unset_used_ips each took.
C21_EqualIffSameSets ==
    (/\ pc = "ready"
     /\ Covered(available_ip_pool) = Covered(other.available_ip_pool)
     /\ Covered(used_ips) = Covered(other.used_ips)) => eq

\* C24: when execute has returned or raised its aggregate, every call it
\* submitted, one per padded (args, kwargs) pair, is recorded: the number of
\* results plus the number of exceptions is the number of submitted calls,
\* also when the same arguments occur more than once.
C24_EveryCallRecorded ==
    (pc \in {"returned", "raised"} /\ call.op = "execute" /\ call.err # "TimeoutError") =>
        /\ Len(future_dict) = Len(zip_pair(call.arg.args_list, call.arg.kwargs_list))
        /\ __len__(result_dict) + __len__(multi_exception) = Len(future_dict)

\* no thread is inside a call
Quiet == thread # <<>> /\ \A t \in Threads : thread[t].at = "idle"

\* invariants 2, 3 and 4 of the two lists
ListsIntact ==
    /\ IsCanonical(available_ip_pool) /\ IsCanonical(used_ips)
    /\ Covered(available_ip_pool) \cap Covered(used_ips) = {}
    /\ Covered(available_ip_pool) \cup Covered(used_ips) = universe

\* C23: when the two threads serialize their calls by a mutex, at most one of
\* them is inside a call, and whenever none is, each list is free of
\* overlapping and touching intervals, no address is in both lists, and the two
\* lists together cover the addresses the pool was constructed with.  (Without
\* the mutex a state is reached in which an address is in neither list.)
C23_SerializedSafe ==
    (pc = "ready" /\ mutex \notin {"none"}) =>
        /\ \A t, u \in Threads : (thread[t].at # "idle" /\ thread[u].at # "idle") => t = u
        /\ Quiet => ListsIntact

\* the threads use no mutex, both have returned, and an address of the pool
\* is in neither list
C23_LostUpdate ==
    /\ mutex = "none"
    /\ Quiet
    /\ call.err = "ok"
    /\ \E ip \in universe : ip \notin Covered(available_ip_pool) \cup Covered(used_ips)

====
